---- MODULE Spec2Model ----
(***************************************************************************)
(* A model of LibuvStreamWrap (src/src/stream_wrap.cc): the adapter that   *)
(* bridges a libuv stream handle to the StreamBase object model.           *)
(*                                                                         *)
(* The caller's (uv_buf_t* bufs, size_t count) pair is a pointer `bufs`    *)
(* into an array `arr` of uv_buf_t records [base, len] together with       *)
(* `count`.  The event loop (libuv), the close protocol (HandleWrap) and   *)
(* the request objects (ReqWrap) are collaborators of the file; they are   *)
(* modelled as the design document describes them.                         *)
(*                                                                         *)
(* The write side, the read side, SetBlocking and DoTryWrite's slicing     *)
(* share only the close state of the handle, so each is explored in a      *)
(* specification of its own (SpecWrite, SpecRead, SpecCtl, SpecTW); Spec   *)
(* is their composition.                                                   *)
(***************************************************************************)
EXTENDS Integers, Sequences, FiniteSets, TLC

\* ------------------------------------------------------------------ bounds
MaxBufs      == 3   \* longest buffer array handed to DoTryWrite
MaxLen       == 3   \* largest uv_buf_t.len
MaxBase      == 1   \* largest initial uv_buf_t.base (offset into caller memory)
MaxWrites    == 2   \* WriteWrap requests created in one run
MaxShutdowns == 1   \* ShutdownWrap requests created in one run
MaxReads     == 2   \* allocate/read cycles the loop runs in one run

\* ------------------------------------------------------- libuv error codes
UV_EAGAIN == -11
UV_ENOSYS == -38
UV_EINVAL == -22
\* negative results of uv_try_write other than UV_EAGAIN / UV_ENOSYS
OtherErrs == {-32, -9}
\* what uv_write, uv_write2 and uv_shutdown may return
DispatchResults == {0, -32}
\* the status the loop reports to a write or shutdown callback
CompletionStatuses == {0, -125}
\* what uv_stream_set_blocking may return
SetBlockingResults == {0, -9}
\* nread of a read callback: UV_EOF, nothing, one byte, two bytes
Nreads == {-4095, 0, 1, 2}
\* kinds uv_pipe_pending_type can report
PendingTypes == {"UV_TCP", "UV_NAMED_PIPE", "UV_UDP", "UV_UNKNOWN_HANDLE", "UV_TTY"}

VARIABLES
  arr,        \* the uv_buf_t array the caller of DoTryWrite owns
  bufs,       \* *bufs : index of the first buffer of the caller's list in arr
  count,      \* *count: number of buffers of the caller's list
  ipc,        \* is_named_pipe_ipc()
  readable,   \* the loop accepts a read registration on the handle
  state,      \* close state of the handle: kInitialized, kClosing, kClosed
  stream_,    \* stream(): "handle", or "null" once the close protocol finished
  blocking,   \* blocking mode of the kernel handle
  reading,    \* the adapter is registered for read notifications
  writes,     \* the WriteWrap requests, by creation order
  shuts,      \* the ShutdownWrap requests, by creation order
  writeq,     \* the loop's queue of dispatched, uncompleted writes
  shutq,      \* the loop's queue of dispatched, uncompleted shutdowns
  completed,  \* ids of the writes handed to OnWriteComplete, in delivery order
  allocBuf,   \* buffer the loop holds between OnUvAlloc and OnUvRead, 0 if none
  nCycle,     \* allocate/read cycles started
  slot,       \* the pendingHandle property of the adapter's object
  cb,         \* what the last OnUvRead did
  last,       \* the last call of an operation: its inputs and its return value
  aborted,    \* the process was terminated by ABORT() or a failed CHECK
  nullCall    \* a libuv function was called with a null stream

vars == <<arr, bufs, count, ipc, readable, state, stream_, blocking, reading,
          writes, shuts, writeq, shutq, completed, allocBuf, nCycle, slot, cb,
          last, aborted, nullCall>>

bufvars   == <<arr, bufs, count>>
writevars == <<writes, shuts, writeq, shutq, completed>>
readvars  == <<allocBuf, nCycle, slot, cb>>

\* Total length of the cnt buffers of a starting at index p.
RECURSIVE TotalLen(_, _, _)
TotalLen(a, p, cnt) ==
  IF cnt = 0 THEN 0 ELSE a[p].len + TotalLen(a, p + 1, cnt - 1)

\* The list the pair (p, cnt) denotes.
View(a, p, cnt) == SubSeq(a, p, p + cnt - 1)

\* The loop of DoTryWrite: `for (; vcount > 0; vbufs++, vcount--)`.
RECURSIVE Slice(_, _, _, _)
Slice(a, vbufs, vcount, written) ==
  IF vcount = 0
    THEN [arr |-> a, bufs |-> vbufs, count |-> vcount]
    ELSE IF a[vbufs].len > written
      THEN [arr   |-> [a EXCEPT ![vbufs] = [base |-> @.base + written,
                                            len  |-> @.len - written]],
            bufs  |-> vbufs,
            count |-> vcount]
      ELSE Slice(a, vbufs + 1, vcount - 1, written - a[vbufs].len)

\* A slicing loop that tests `>=` where the code tests `>`.
RECURSIVE Slice_ge(_, _, _, _)
Slice_ge(a, vbufs, vcount, written) ==
  IF vcount = 0
    THEN [arr |-> a, bufs |-> vbufs, count |-> vcount]
    ELSE IF a[vbufs].len >= written
      THEN [arr   |-> [a EXCEPT ![vbufs] = [base |-> @.base + written,
                                            len  |-> @.len - written]],
            bufs  |-> vbufs,
            count |-> vcount]
      ELSE Slice_ge(a, vbufs + 1, vcount - 1, written - a[vbufs].len)

\* A DoTryWrite whose loop is Slice_ge.
DoTryWrite_ge(a, p, cnt, err) ==
  IF err = UV_ENOSYS \/ err = UV_EAGAIN
    THEN [ret |-> 0, arr |-> a, bufs |-> p, count |-> cnt]
  ELSE IF err < 0
    THEN [ret |-> err, arr |-> a, bufs |-> p, count |-> cnt]
  ELSE Slice_ge(a, p, cnt, err) @@ [ret |-> 0]

\* A DoTryWrite that turns UV_ENOSYS and UV_EAGAIN into a count of 0 bytes
\* and goes on to the slicing loop instead of returning.
DoTryWrite_fallthrough(a, p, cnt, err) ==
  IF err < 0 /\ err # UV_ENOSYS /\ err # UV_EAGAIN
    THEN [ret |-> err, arr |-> a, bufs |-> p, count |-> cnt]
  ELSE Slice(a, p, cnt, IF err < 0 THEN 0 ELSE err) @@ [ret |-> 0]

\* A DoTryWrite that only knows UV_EAGAIN: UV_ENOSYS is returned as an error.
DoTryWrite_enosys(a, p, cnt, err) ==
  IF err = UV_EAGAIN
    THEN [ret |-> 0, arr |-> a, bufs |-> p, count |-> cnt]
  ELSE IF err < 0
    THEN [ret |-> err, arr |-> a, bufs |-> p, count |-> cnt]
  ELSE Slice(a, p, cnt, err) @@ [ret |-> 0]

\* int LibuvStreamWrap::DoTryWrite(uv_buf_t** bufs, size_t* count), given the
\* value err that uv_try_write returned.
DoTryWrite(a, p, cnt, err) ==
  IF err = UV_ENOSYS \/ err = UV_EAGAIN
    THEN [ret |-> 0, arr |-> a, bufs |-> p, count |-> cnt]
  ELSE IF err < 0
    THEN [ret |-> err, arr |-> a, bufs |-> p, count |-> cnt]
  ELSE Slice(a, p, cnt, err) @@ [ret |-> 0]

\* What uv_try_write may report for buffers of total length total.
UvTryWriteResults(total) == {UV_ENOSYS, UV_EAGAIN} \cup OtherErrs \cup (0..total)

\* ---------------------------------------------------------- close protocol
\* HandleWrap::IsAlive, used by LibuvStreamWrap::IsAlive: false from the
\* moment the handle enters the closing state.
IsAlive == state = "kInitialized"

\* A caller that rejects a call while the handle is closing but not after
\* the close has finished.
CallerRejects_closing == state = "kClosing"

\* The callers of ReadStart, ReadStop, DoWrite, DoTryWrite and DoShutdown
\* reject a call on a dead handle instead of making it.
CallerRejects == ~IsAlive

\* The loop runs one callback at a time: between OnUvAlloc and OnUvRead
\* nothing else runs.
Idle == ~aborted /\ allocBuf = 0

Reject(what) ==
  /\ last' = [op |-> "rejected", what |-> what, ret |-> UV_EINVAL,
              null |-> (stream_ = "null")]
  /\ UNCHANGED <<bufvars, ipc, readable, state, stream_, blocking, reading,
                 writevars, readvars, aborted, nullCall>>

\* A libuv call dereferences the stream it is given.
Deref == nullCall \/ stream_ = "null"

\* ------------------------------------------------------------------- reads
\* int LibuvStreamWrap::ReadStart(): returns what uv_read_start returned.
ReadStart(r) == r

\* uv_read_start: fails on a stream that is not readable.
UvReadStart == IF readable THEN 0 ELSE -107

JSReadStart ==
  /\ Idle
  /\ IF CallerRejects THEN Reject("ReadStart")
     ELSE /\ reading' = (reading \/ UvReadStart = 0)
          /\ last' = [op |-> "ReadStart", uv |-> UvReadStart,
                      ret |-> ReadStart(UvReadStart)]
          /\ nullCall' = Deref
          /\ UNCHANGED <<bufvars, ipc, readable, state, stream_, blocking,
                         writevars, readvars, aborted>>

\* int LibuvStreamWrap::ReadStop(): uv_read_stop always succeeds.
JSReadStop ==
  /\ Idle
  /\ IF CallerRejects THEN Reject("ReadStop")
     ELSE /\ reading' = FALSE
          /\ last' = [op |-> "ReadStop", ret |-> 0]
          /\ nullCall' = Deref
          /\ UNCHANGED <<bufvars, ipc, readable, state, stream_, blocking,
                         writevars, readvars, aborted>>

\* An OnUvAlloc that hands the loop a buffer the adapter keeps, the one of
\* the first cycle, whatever EmitAlloc returned.
OnUvAlloc_static(fresh) == 1

\* void LibuvStreamWrap::OnUvAlloc: the buffer EmitAlloc returns is handed
\* to the loop.  Every cycle gets a fresh buffer, named by the cycle number.
OnUvAlloc(fresh) == fresh

LoopAlloc ==
  /\ Idle
  /\ reading
  /\ state = "kInitialized"
  /\ nCycle < MaxReads
  /\ nCycle' = nCycle + 1
  /\ allocBuf' = OnUvAlloc(nCycle + 1)
  /\ UNCHANGED <<bufvars, ipc, readable, state, stream_, blocking, reading,
                 writevars, slot, cb, last, aborted, nullCall>>

\* A dispatch on the pending type that instantiates a TCPWrap in every branch.
WrapOf_tcp(type) == "TCPWrap"

\* The wrapper class OnUvRead instantiates for a pending handle of a type.
WrapOf(type) ==
  CASE type = "UV_TCP"        -> "TCPWrap"
    [] type = "UV_NAMED_PIPE" -> "PipeWrap"
    [] type = "UV_UDP"        -> "UDPWrap"

\* An AcceptHandle that returns an empty handle when uv_accept fails.
AcceptHandle_recover(type, instOk, acceptRes) ==
  IF ~instOk
    THEN [obj |-> {}, made |-> 0, accepts |-> 0, abort |-> FALSE]
  ELSE IF acceptRes # 0
    THEN [obj |-> {}, made |-> 1, accepts |-> 1, abort |-> FALSE]
  ELSE [obj |-> {WrapOf(type)}, made |-> 1, accepts |-> 1, abort |-> FALSE]

\* AcceptHandle<WrapType, UVType>: instOk says that WrapType::Instantiate
\* returned an object that unwraps, acceptRes is what uv_accept returned.
\* obj is the set holding the wrapper returned, empty for an empty Local.
AcceptHandle(type, instOk, acceptRes) ==
  IF ~instOk
    THEN [obj |-> {}, made |-> 0, accepts |-> 0, abort |-> FALSE]
  ELSE IF acceptRes # 0
    THEN [obj |-> {}, made |-> 1, accepts |-> 1, abort |-> TRUE]
  ELSE [obj |-> {WrapOf(type)}, made |-> 1, accepts |-> 1, abort |-> FALSE]

\* A dispatch on the pending type that has no branch for UV_UDP.
StreamKinds_noudp == {"UV_TCP", "UV_NAMED_PIPE"}

\* The pending types OnUvRead has an AcceptHandle branch for.
StreamKinds == {"UV_TCP", "UV_NAMED_PIPE", "UV_UDP"}

\* An OnUvRead that handles a negative nread itself: it stops reading and
\* does not call EmitRead.
OnUvRead_stop(in) ==
  LET type == IF ipc /\ in.pcount > 0 THEN in.ptype ELSE "UV_UNKNOWN_HANDLE"
      none == [obj |-> {}, made |-> 0, accepts |-> 0, abort |-> FALSE]
      acc  == IF state # "kClosed" /\ in.nread > 0 /\ type \in StreamKinds
                THEN AcceptHandle(type, in.instOk, in.acceptRes)
                ELSE none
      setting == ~acc.abort /\ acc.obj # {}
      fatal == \/ state = "kClosed"
               \/ (in.nread > 0 /\ type \notin StreamKinds
                                /\ type # "UV_UNKNOWN_HANDLE")
               \/ acc.abort
               \/ (setting /\ ~in.setOk)
      stored == ~fatal /\ setting
  IN [abort      |-> fatal,
      type       |-> type,
      made       |-> acc.made,
      accepts    |-> acc.accepts,
      slotWrites |-> IF setting THEN 1 ELSE 0,
      slot       |-> IF stored
                       THEN [kind  |-> CHOOSE k \in acc.obj : TRUE,
                             cycle |-> in.cycle]
                       ELSE slot,
      emits      |-> IF fatal \/ in.nread < 0 THEN <<>>
                     ELSE <<[nread |-> in.nread, buf |-> in.buf,
                             slot  |-> IF stored THEN WrapOf(type) ELSE slot.kind]>>,
      reading    |-> (reading /\ in.nread >= 0),
      state      |-> state]

\* An OnUvRead that empties the pendingHandle property in a cycle in which
\* no handle arrived.
OnUvRead_clear(in) ==
  LET type == IF ipc /\ in.pcount > 0 THEN in.ptype ELSE "UV_UNKNOWN_HANDLE"
      none == [obj |-> {}, made |-> 0, accepts |-> 0, abort |-> FALSE]
      acc  == IF state # "kClosed" /\ in.nread > 0 /\ type \in StreamKinds
                THEN AcceptHandle(type, in.instOk, in.acceptRes)
                ELSE none
      setting == ~acc.abort /\ acc.obj # {}
      fatal == \/ state = "kClosed"
               \/ (in.nread > 0 /\ type \notin StreamKinds
                                /\ type # "UV_UNKNOWN_HANDLE")
               \/ acc.abort
               \/ (setting /\ ~in.setOk)
      stored == ~fatal /\ setting
  IN [abort      |-> fatal,
      type       |-> type,
      made       |-> acc.made,
      accepts    |-> acc.accepts,
      slotWrites |-> IF setting THEN 1 ELSE 0,
      slot       |-> IF stored
                       THEN [kind  |-> CHOOSE k \in acc.obj : TRUE,
                             cycle |-> in.cycle]
                       ELSE IF fatal THEN slot
                       ELSE [kind |-> "none", cycle |-> 0],
      emits      |-> IF fatal THEN <<>>
                     ELSE <<[nread |-> in.nread, buf |-> in.buf,
                             slot  |-> IF stored THEN WrapOf(type) ELSE "none"]>>,
      reading    |-> reading,
      state      |-> state]

\* An OnUvRead that asks for the pending type without testing
\* is_named_pipe_ipc().
OnUvRead_noipc(in) ==
  LET type == IF in.pcount > 0 THEN in.ptype ELSE "UV_UNKNOWN_HANDLE"
      none == [obj |-> {}, made |-> 0, accepts |-> 0, abort |-> FALSE]
      acc  == IF state # "kClosed" /\ in.nread > 0 /\ type \in StreamKinds
                THEN AcceptHandle(type, in.instOk, in.acceptRes)
                ELSE none
      setting == ~acc.abort /\ acc.obj # {}
      fatal == \/ state = "kClosed"
               \/ (in.nread > 0 /\ type \notin StreamKinds
                                /\ type # "UV_UNKNOWN_HANDLE")
               \/ acc.abort
               \/ (setting /\ ~in.setOk)
      stored == ~fatal /\ setting
  IN [abort      |-> fatal,
      type       |-> type,
      made       |-> acc.made,
      accepts    |-> acc.accepts,
      slotWrites |-> IF setting THEN 1 ELSE 0,
      slot       |-> IF stored
                       THEN [kind  |-> CHOOSE k \in acc.obj : TRUE,
                             cycle |-> in.cycle]
                       ELSE slot,
      emits      |-> IF fatal THEN <<>>
                     ELSE <<[nread |-> in.nread, buf |-> in.buf,
                             slot  |-> IF stored THEN WrapOf(type) ELSE slot.kind]>>,
      reading    |-> reading,
      state      |-> state]

\* void LibuvStreamWrap::OnUvRead(ssize_t nread, const uv_buf_t* buf).
\* in: the callback's arguments, what the loop reports about the handle, and
\* setOk, which says that storing the pendingHandle property succeeded
\* (FromJust() terminates the process when it did not).
\* The result says what the callback did: emits is the sequence of EmitRead
\* calls, slot the pendingHandle property afterwards.
OnUvRead(in) ==
  LET type == IF ipc /\ in.pcount > 0 THEN in.ptype ELSE "UV_UNKNOWN_HANDLE"
      none == [obj |-> {}, made |-> 0, accepts |-> 0, abort |-> FALSE]
      acc  == IF state # "kClosed" /\ in.nread > 0 /\ type \in StreamKinds
                THEN AcceptHandle(type, in.instOk, in.acceptRes)
                ELSE none
      setting == ~acc.abort /\ acc.obj # {}
      fatal == \/ state = "kClosed"
               \/ (in.nread > 0 /\ type \notin StreamKinds
                                /\ type # "UV_UNKNOWN_HANDLE")
               \/ acc.abort
               \/ (setting /\ ~in.setOk)
      stored == ~fatal /\ setting
  IN [abort      |-> fatal,
      type       |-> type,
      made       |-> acc.made,
      accepts    |-> acc.accepts,
      slotWrites |-> IF setting THEN 1 ELSE 0,
      slot       |-> IF stored
                       THEN [kind  |-> CHOOSE k \in acc.obj : TRUE,
                             cycle |-> in.cycle]
                       ELSE slot,
      emits      |-> IF fatal THEN <<>>
                     ELSE <<[nread |-> in.nread, buf |-> in.buf,
                             slot  |-> IF stored THEN WrapOf(type) ELSE slot.kind]>>,
      reading    |-> reading,
      state      |-> state]

\* The inputs of one read callback.  The pending type is only asked for
\* when something is pending, AcceptHandle only runs for a stream kind and
\* the property is only stored when AcceptHandle returned a wrapper.
ReadInputs ==
  {in \in [nread : Nreads, pcount : 0..1, ptype : PendingTypes,
           instOk : BOOLEAN, acceptRes : {0, -1}, setOk : BOOLEAN,
           buf : {allocBuf}, cycle : {nCycle}] :
     /\ in.pcount = 0 => in.ptype = "UV_UNKNOWN_HANDLE"
     /\ ~(ipc /\ in.pcount > 0 /\ in.nread > 0 /\ in.ptype \in StreamKinds)
          => (in.instOk /\ in.acceptRes = 0)
     /\ ~in.instOk => in.acceptRes = 0
     /\ (~in.instOk \/ in.acceptRes # 0) => in.setOk}

LoopRead ==
  /\ ~aborted
  /\ allocBuf # 0
  /\ \E in \in ReadInputs :
       LET r == OnUvRead(in) IN
         /\ cb' = [called |-> TRUE, in |-> in, out |-> r, slotBefore |-> slot]
         /\ slot' = r.slot
         /\ reading' = r.reading
         /\ state' = r.state
         /\ aborted' = r.abort
  /\ allocBuf' = 0
  /\ UNCHANGED <<bufvars, ipc, readable, stream_, blocking, writevars,
                 nCycle, last, nullCall>>

\* ------------------------------------------------------------------ writes
NewReq(send, r, ret) ==
  [send |-> send, uv |-> r, ret |-> ret, dispatched |-> TRUE,
   done |-> 0, status |-> {}, reported |-> {}]

\* A DoWrite that reports success whatever the loop returned.
DoWrite_zero(send_handle, r) == NewReq(send_handle, r, 0)

\* int LibuvStreamWrap::DoWrite(w, bufs, count, send_handle), given the value
\* r that uv_write (send_handle == nullptr) or uv_write2 returned: the
\* request is marked dispatched and r is returned.
DoWrite(send_handle, r) == NewReq(send_handle, r, r)

\* What the loop returns to DoWrite: uv_write2 on a handle that is not an
\* IPC pipe is left to the loop, which takes the request or rejects it.
UvWriteResults(send_handle) ==
  IF send_handle /\ ~ipc THEN {0, UV_EINVAL} ELSE DispatchResults

JSWrite ==
  /\ Idle
  /\ IF CallerRejects THEN Reject("Write")
     ELSE /\ Len(writes) < MaxWrites
          /\ \E send_handle \in BOOLEAN : \E r \in UvWriteResults(send_handle) :
               /\ writes' = Append(writes, DoWrite(send_handle, r))
               /\ writeq' = IF r = 0 THEN Append(writeq, Len(writes) + 1)
                                     ELSE writeq
          /\ last' = [op |-> "Write", id |-> Len(writes) + 1]
          /\ nullCall' = Deref
          /\ UNCHANGED <<bufvars, ipc, readable, state, stream_, blocking,
                         reading, shuts, shutq, completed, readvars, aborted>>

\* int LibuvStreamWrap::DoShutdown(req_wrap), given the value r that
\* uv_shutdown returned.
DoShutdown(r) == NewReq(FALSE, r, r)

JSShutdown ==
  /\ Idle
  /\ IF CallerRejects THEN Reject("Shutdown")
     ELSE /\ Len(shuts) < MaxShutdowns
          /\ \E r \in DispatchResults :
               /\ shuts' = Append(shuts, DoShutdown(r))
               /\ shutq' = IF r = 0 THEN Append(shutq, Len(shuts) + 1)
                                    ELSE shutq
          /\ last' = [op |-> "Shutdown", id |-> Len(shuts) + 1]
          /\ nullCall' = Deref
          /\ UNCHANGED <<bufvars, ipc, readable, state, stream_, blocking,
                         reading, writes, writeq, completed, readvars, aborted>>

\* ReqWrap::Done(status): the request is resolved with status and handed to
\* the sink's completion callback.
Done(w, status) == [w EXCEPT !.done = @ + 1, !.status = {status}]

\* An AfterUvWrite that resolves the request with success whatever the loop
\* reported.
AfterUvWrite_ok(ws, log, req, status) ==
  [writes |-> [ws EXCEPT ![req] = Done(@, 0)], completed |-> Append(log, req)]

\* An AfterUvWrite whose from_req finds the most recently created request
\* instead of the one the loop completed.
AfterUvWrite_wrongreq(ws, log, req, status) ==
  [writes    |-> [ws EXCEPT ![Len(ws)] = Done(@, status)],
   completed |-> Append(log, Len(ws))]

\* void LibuvStreamWrap::AfterUvWrite(uv_write_t* req, int status): the
\* WriteWrap of req is resolved with status.
AfterUvWrite(ws, log, req, status) ==
  [writes |-> [ws EXCEPT ![req] = Done(@, status)], completed |-> Append(log, req)]

\* The loop completes its oldest queued write.
LoopWriteCb ==
  /\ Idle
  /\ writeq # <<>>
  /\ \E status \in CompletionStatuses :
       LET req == Head(writeq)
           r   == AfterUvWrite([writes EXCEPT ![req].reported = @ \cup {status}],
                               completed, req, status)
       IN /\ writes' = r.writes
          /\ completed' = r.completed
  /\ writeq' = Tail(writeq)
  /\ UNCHANGED <<bufvars, ipc, readable, state, stream_, blocking, reading,
                 shuts, shutq, readvars, last, aborted, nullCall>>

\* void LibuvStreamWrap::AfterUvShutdown(uv_shutdown_t* req, int status).
AfterUvShutdown(ss, req, status) == [ss EXCEPT ![req] = Done(@, status)]

\* The loop completes its oldest queued shutdown.
LoopShutdownCb ==
  /\ Idle
  /\ shutq # <<>>
  /\ \E status \in CompletionStatuses :
       LET req == Head(shutq) IN
         shuts' = AfterUvShutdown([shuts EXCEPT ![req].reported = @ \cup {status}],
                                  req, status)
  /\ shutq' = Tail(shutq)
  /\ UNCHANGED <<bufvars, ipc, readable, state, stream_, blocking, reading,
                 writes, writeq, completed, readvars, last, aborted, nullCall>>

\* ---------------------------------------------------------------- TryWrite
TryWrite ==
  /\ Idle
  /\ IF CallerRejects THEN Reject("TryWrite")
     ELSE /\ \E err \in UvTryWriteResults(TotalLen(arr, bufs, count)) :
               LET r == DoTryWrite(arr, bufs, count, err) IN
                 /\ arr' = r.arr
                 /\ bufs' = r.bufs
                 /\ count' = r.count
                 /\ last' = [op |-> "TryWrite", arr |-> arr, bufs |-> bufs,
                             count |-> count, err |-> err, ret |-> r.ret]
          /\ nullCall' = Deref
          /\ UNCHANGED <<ipc, readable, state, stream_, blocking, reading,
                         writevars, readvars, aborted>>

\* ------------------------------------------------------------- SetBlocking
\* A SetBlocking without the liveness test.
SetBlocking_noguard(argc, enable, r) ==
  IF argc = 0 THEN [abort |-> TRUE, kernel |-> FALSE, ret |-> {}]
  ELSE [abort |-> FALSE, kernel |-> TRUE, ret |-> {r}]

\* void LibuvStreamWrap::SetBlocking(args), given the number of arguments
\* and the value r that uv_stream_set_blocking returns when it is called.
SetBlocking(argc, enable, r) ==
  IF argc = 0 THEN [abort |-> TRUE, kernel |-> FALSE, ret |-> {}]
  ELSE IF ~IsAlive THEN [abort |-> FALSE, kernel |-> FALSE, ret |-> {UV_EINVAL}]
  ELSE [abort |-> FALSE, kernel |-> TRUE, ret |-> {r}]

JSSetBlocking ==
  /\ Idle
  /\ \E argc \in 0..1, enable \in BOOLEAN, r \in SetBlockingResults :
       LET c == SetBlocking(argc, enable, r) IN
         /\ (argc = 0 \/ ~IsAlive) => (enable /\ r = 0)
         /\ aborted' = c.abort
         /\ blocking' = IF c.kernel /\ r = 0 THEN enable ELSE blocking
         /\ nullCall' = (nullCall \/ (c.kernel /\ stream_ = "null"))
         /\ last' = [op |-> "SetBlocking", argc |-> argc, enable |-> enable,
                     alive |-> IsAlive, state |-> state, before |-> blocking,
                     kernel |-> c.kernel, ret |-> c.ret]
  /\ UNCHANGED <<bufvars, ipc, readable, state, stream_, reading, writevars,
                 readvars>>

\* ------------------------------------------------------- GetWriteQueueSize
\* A size_t is written as its four 16-bit limbs, most significant first.
\* The values the handle's write_queue_size takes here: 0, 1, 2^32 - 1,
\* 2^32 and 2^32 + 5.
QueueSizes ==
  {<<0, 0, 0, 0>>, <<0, 0, 0, 1>>, <<0, 0, 65535, 65535>>,
   <<0, 1, 0, 0>>, <<0, 1, 0, 5>>}

\* The conversion of a size_t to uint32_t keeps the two low limbs.
ToUint32(v) == <<0, 0, v[3], v[4]>>

\* void LibuvStreamWrap::GetWriteQueueSize(info), given the handle's
\* write_queue_size: 0 without a handle, else the counter stored in a
\* uint32_t.
GetWriteQueueSize(wqs) ==
  IF stream_ = "null" THEN <<0, 0, 0, 0>> ELSE ToUint32(wqs)

JSGetWriteQueueSize ==
  /\ Idle
  /\ \E wqs \in QueueSizes :
       /\ stream_ = "null" => wqs = <<0, 0, 0, 0>>
       /\ last' = [op |-> "GetWriteQueueSize", null |-> (stream_ = "null"),
                   wqs |-> wqs, ret |-> GetWriteQueueSize(wqs)]
  /\ UNCHANGED <<bufvars, ipc, readable, state, stream_, blocking, reading,
                 writevars, readvars, aborted, nullCall>>

\* ------------------------------------------------------------------- close
\* A close that starts while the loop is between the allocation and the
\* read callback of a cycle and does not withdraw that callback.
Close_midcycle ==
  /\ ~aborted
  /\ state = "kInitialized"
  /\ state' = "kClosing"
  /\ reading' = FALSE
  /\ UNCHANGED <<bufvars, ipc, readable, stream_, blocking, writevars,
                 readvars, last, aborted, nullCall>>

\* The close protocol starts: the loop stops delivering reads.
Close ==
  /\ Idle
  /\ state = "kInitialized"
  /\ state' = "kClosing"
  /\ reading' = FALSE
  /\ UNCHANGED <<bufvars, ipc, readable, stream_, blocking, writevars,
                 readvars, last, aborted, nullCall>>

\* The close protocol ends once the loop has run the callbacks of the
\* requests it still held: the adapter's handle becomes null.
OnClose ==
  /\ Idle
  /\ state = "kClosing"
  /\ writeq = <<>>
  /\ shutq = <<>>
  /\ state' = "kClosed"
  /\ stream_' = "null"
  /\ UNCHANGED <<bufvars, ipc, readable, blocking, reading, writevars,
                 readvars, last, aborted, nullCall>>

\* ---------------------------------------------------------- specifications
InitAdapter ==
  /\ ipc \in BOOLEAN
  /\ readable \in BOOLEAN
  /\ state = "kInitialized"
  /\ stream_ = "handle"
  /\ blocking = FALSE
  /\ reading = FALSE
  /\ writes = <<>>
  /\ shuts = <<>>
  /\ writeq = <<>>
  /\ shutq = <<>>
  /\ completed = <<>>
  /\ allocBuf = 0
  /\ nCycle = 0
  /\ slot = [kind |-> "none", cycle |-> 0]
  /\ cb = [called |-> FALSE]
  /\ last = [op |-> "none"]
  /\ aborted = FALSE
  /\ nullCall = FALSE

\* The adapter with one one-byte buffer waiting to be written.
Init ==
  /\ InitAdapter
  /\ arr = <<[base |-> 0, len |-> 1]>>
  /\ bufs = 1
  /\ count = 1

Next ==
  \/ JSReadStart
  \/ JSReadStop
  \/ JSWrite
  \/ JSShutdown
  \/ TryWrite
  \/ JSSetBlocking
  \/ JSGetWriteQueueSize
  \/ LoopAlloc
  \/ LoopRead
  \/ LoopWriteCb
  \/ LoopShutdownCb
  \/ Close
  \/ OnClose

Spec == Init /\ [][Next]_vars

\* DoTryWrite on every buffer list within the bounds.
InitTW ==
  /\ InitAdapter
  /\ ipc
  /\ readable
  /\ \E n \in 0..MaxBufs :
       arr \in [1..n -> [base : 0..MaxBase, len : 0..MaxLen]]
  /\ bufs = 1
  /\ count = Len(arr)

NextTW == TryWrite

SpecTW == InitTW /\ [][NextTW]_vars

\* The operations and the write side of the loop.
NextWrite ==
  \/ JSReadStart
  \/ JSReadStop
  \/ JSWrite
  \/ JSShutdown
  \/ TryWrite
  \/ LoopWriteCb
  \/ LoopShutdownCb
  \/ Close
  \/ OnClose

SpecWrite == Init /\ [][NextWrite]_vars

\* The read side of the loop.
NextRead ==
  \/ JSReadStart
  \/ JSReadStop
  \/ LoopAlloc
  \/ LoopRead
  \/ Close
  \/ OnClose

SpecRead == Init /\ [][NextRead]_vars

\* SetBlocking and the close protocol.
NextCtl ==
  \/ JSSetBlocking
  \/ JSReadStart
  \/ JSReadStop
  \/ TryWrite
  \/ Close
  \/ OnClose

SpecCtl == Init /\ [][NextCtl]_vars

\* The write-queue accessor next to the operations of SpecCtl.
NextQueue == NextCtl \/ JSGetWriteQueueSize

SpecQueue == Init /\ [][NextQueue]_vars

\* ================================================================= claims
\* The lengths of the buffers of a list.
Lens(a, p, cnt) == [i \in 1..cnt |-> a[p + i - 1].len]

\* The slicing rule for a call in which the kernel reported W = last.err
\* bytes: the remaining length is L - W, buffers are only removed from the
\* front, no fully consumed buffer stays at the front, and the only record
\* of the array that changes is the new front, advanced by the remainder.
C1_General ==
  (last.op = "TryWrite" /\ last.err >= 0) =>
    LET L       == TotalLen(last.arr, last.bufs, last.count)
        W       == last.err
        dropped == bufs - last.bufs
        rem     == W - TotalLen(last.arr, last.bufs, dropped)
    IN /\ TotalLen(arr, bufs, count) = L - W
       /\ dropped >= 0
       /\ bufs + count = last.bufs + last.count
       /\ rem >= 0
       /\ Len(arr) = Len(last.arr)
       /\ \A i \in 1..Len(arr) : i # bufs => arr[i] = last.arr[i]
       /\ count > 0 => /\ arr[bufs].len > 0
                       /\ arr[bufs].base = last.arr[bufs].base + rem
                       /\ arr[bufs].len = last.arr[bufs].len - rem
       /\ count = 0 => (rem = 0 /\ arr = last.arr)

\* The call of the example: lengths [2,3], 4 bytes written.
C1_ExampleCall ==
  /\ last.op = "TryWrite"
  /\ last.err = 4
  /\ Lens(last.arr, last.bufs, last.count) = <<2, 3>>

\* C1 as stated: the slicing rule, and buffers of lengths [2,3] with W = 4
\* leave exactly one buffer {offset 1, length 1}.
C1_AsStated ==
  /\ C1_General
  /\ C1_ExampleCall =>
       View(arr, bufs, count) = <<[base |-> 1, len |-> 1]>>

\* C1, amended: the slicing rule holds for every buffer list and every
\* 0 <= W <= L, and buffers of lengths [2,3] with W = 4 leave exactly one
\* buffer, the second one with its offset advanced by the remainder 2 and
\* length 1.
C1_Slicing ==
  /\ C1_General
  /\ C1_ExampleCall =>
       View(arr, bufs, count) =
         <<[base |-> last.arr[last.bufs + 1].base + 2, len |-> 1]>>

\* The example call happened, on buffers that start at offset 0.
C1_Witness ==
  /\ C1_ExampleCall
  /\ last.arr[last.bufs].base = 0
  /\ last.arr[last.bufs + 1].base = 0
  /\ count = 1
  /\ arr[bufs] = [base |-> 2, len |-> 1]

\* C2 as stated: a TryWrite call in which zero bytes are written (would
\* block, not supported, or a write of 0 bytes) leaves the list start, the
\* count and every buffer unchanged.
C2_AsStated ==
  (last.op = "TryWrite" /\ last.err \in {UV_EAGAIN, UV_ENOSYS, 0}) =>
    (arr = last.arr /\ bufs = last.bufs /\ count = last.count)

\* C2, amended: on would-block or not-supported the list start, the count
\* and every buffer are unchanged; on a write of 0 bytes every buffer's
\* offset and length are unchanged and exactly the leading zero-length
\* buffers are removed from the front of the list, so the list is unchanged
\* when it is empty or starts with a non-empty buffer.
C2_NoOp ==
  last.op = "TryWrite" =>
    /\ last.err \in {UV_EAGAIN, UV_ENOSYS} =>
         (arr = last.arr /\ bufs = last.bufs /\ count = last.count)
    /\ last.err = 0 =>
         /\ arr = last.arr
         /\ bufs >= last.bufs
         /\ bufs + count = last.bufs + last.count
         /\ \A i \in last.bufs..(bufs - 1) : last.arr[i].len = 0
         /\ count > 0 => arr[bufs].len > 0

\* A write of 0 bytes happened on a list that starts with a zero-length
\* buffer and goes on with a non-empty one.
C2_Witness ==
  /\ last.op = "TryWrite"
  /\ last.err = 0
  /\ last.count > 1
  /\ last.arr[last.bufs].len = 0
  /\ bufs = last.bufs + 1
  /\ count = last.count - 1

\* C3: DoTryWrite returns 0 when the kernel reports would-block or
\* not-supported and when it accepts any number of bytes; any other negative
\* result is returned unchanged and leaves the list and the count unchanged.
C3_ResultMapping ==
  last.op = "TryWrite" =>
    /\ (last.err \in {UV_EAGAIN, UV_ENOSYS} \/ last.err >= 0) => last.ret = 0
    /\ (last.err < 0 /\ last.err \notin {UV_EAGAIN, UV_ENOSYS}) =>
         /\ last.ret = last.err
         /\ arr = last.arr
         /\ bufs = last.bufs
         /\ count = last.count

\* The kernel reported an error other than would-block and not-supported on
\* a non-empty list.
C3_Witness ==
  /\ last.op = "TryWrite"
  /\ last.err \in OtherErrs
  /\ last.ret = last.err
  /\ last.count > 0

\* How often id occurs in a sequence of ids.
Occurrences(q, id) == Cardinality({i \in 1..Len(q) : q[i] = id})

\* A request that the loop accepted is resolved exactly once, when the loop
\* completes it, with the status the loop reported.
ResolvedOnce(w, queued) ==
  /\ w.done <= 1
  /\ w.done = 0 => w.status = {}
  /\ w.done = 1 => (w.status = w.reported /\ Cardinality(w.reported) = 1)
  /\ w.uv = 0 => (w.done = IF queued THEN 0 ELSE 1)

\* C4: every write and every shutdown that was successfully dispatched is
\* resolved exactly once by AfterUvWrite / AfterUvShutdown, with the status
\* the loop reported, and a write is handed to OnWriteComplete exactly once;
\* no status is set before completion or a second time.
C4_ExactlyOnce ==
  /\ \A i \in 1..Len(writes) :
       /\ ResolvedOnce(writes[i], Occurrences(writeq, i) > 0)
       /\ Occurrences(completed, i) = writes[i].done
  /\ \A i \in 1..Len(shuts) :
       ResolvedOnce(shuts[i], Occurrences(shutq, i) > 0)

\* Two writes and a shutdown were completed, one write with an error status.
C4_Witness ==
  /\ Len(writes) = 2
  /\ writes[1].done = 1 /\ writes[1].status = {-125}
  /\ writes[2].done = 1 /\ writes[2].status = {0}
  /\ Len(shuts) = 1
  /\ shuts[1].done = 1

\* The ids of the writes the loop accepted, in submission order.
RECURSIVE Accepted(_)
Accepted(n) ==
  IF n = 0 THEN <<>>
  ELSE IF writes[n].uv = 0 THEN Append(Accepted(n - 1), n)
  ELSE Accepted(n - 1)

\* C5: the completion callbacks of the writes dispatched on the handle are
\* delivered in submission order: the writes completed so far are the first
\* ones of the writes the loop accepted, in that order.
C5_WriteOrder ==
  /\ Len(completed) <= Len(Accepted(Len(writes)))
  /\ completed = SubSeq(Accepted(Len(writes)), 1, Len(completed))

\* Two writes were pending together and both were completed, with a
\* try-write on the handle in between.
C5_Witness ==
  /\ completed = <<1, 2>>
  /\ last.op = "TryWrite"
  /\ Len(shuts) = 1

\* C6: the status Write, Shutdown and ReadStart return is the status of the
\* dispatch; a request whose dispatch failed is never queued, resolved or
\* handed to a completion callback, and a read registration that failed
\* leaves the adapter unregistered, so that the loop delivers no OnRead.
C6_DispatchFailure ==
  /\ \A i \in 1..Len(writes) :
       /\ writes[i].ret = writes[i].uv
       /\ writes[i].ret < 0 =>
            /\ Occurrences(writeq, i) = 0
            /\ Occurrences(completed, i) = 0
            /\ writes[i].done = 0
            /\ writes[i].status = {}
  /\ \A i \in 1..Len(shuts) :
       /\ shuts[i].ret = shuts[i].uv
       /\ shuts[i].ret < 0 =>
            /\ Occurrences(shutq, i) = 0
            /\ shuts[i].done = 0
            /\ shuts[i].status = {}
  /\ last.op = "ReadStart" => last.ret = last.uv
  /\ ~readable => (~reading /\ allocBuf = 0 /\ ~cb.called)

\* A write failed at dispatch, a later write was completed, a shutdown
\* failed at dispatch and the last call was a failed ReadStart.
C6_Witness ==
  /\ Len(writes) = 2
  /\ writes[1].ret < 0
  /\ writes[2].done = 1
  /\ Len(shuts) = 1
  /\ shuts[1].ret < 0
  /\ last.op = "ReadStart"
  /\ last.ret < 0

\* C7: once the handle has entered the closing state IsAlive() is false, and
\* a SetBlocking call made then does not call uv_stream_set_blocking, leaves
\* the blocking mode of the handle as it was and, given its argument,
\* returns UV_EINVAL.
C7_LivenessGating ==
  /\ state # "kInitialized" => ~IsAlive
  /\ (last.op = "SetBlocking" /\ last.state # "kInitialized") =>
       /\ ~last.alive
       /\ ~last.kernel
       /\ blocking = last.before
       /\ last.argc > 0 => last.ret = {UV_EINVAL}

\* SetBlocking was called on a closing handle whose blocking mode had been
\* switched on before, and returned UV_EINVAL.
C7_Witness ==
  /\ last.op = "SetBlocking"
  /\ last.state = "kClosing"
  /\ last.argc = 1
  /\ last.ret = {UV_EINVAL}
  /\ last.before
  /\ blocking

\* The wrapper class that matches a kind of transferred handle.
WrapperFor ==
  [UV_TCP |-> "TCPWrap", UV_NAMED_PIPE |-> "PipeWrap", UV_UDP |-> "UDPWrap"]

\* The last read callback ran on an IPC-capable adapter with a positive byte
\* count and a pending TCP, named-pipe or UDP handle.
C8_Case ==
  /\ cb.called
  /\ ipc
  /\ cb.in.nread > 0
  /\ cb.in.pcount > 0
  /\ cb.in.ptype \in StreamKinds

\* One accept, one wrapper of the matching kind stored in pendingHandle
\* before the one OnRead call, which carries the callback's nread and buffer.
C8_RoundTripDone ==
  /\ cb.out.made = 1
  /\ cb.out.accepts = 1
  /\ cb.out.slotWrites = 1
  /\ slot = [kind |-> WrapperFor[cb.in.ptype], cycle |-> cb.in.cycle]
  /\ cb.out.emits = <<[nread |-> cb.in.nread, buf |-> cb.in.buf,
                       slot  |-> WrapperFor[cb.in.ptype]]>>

\* C8 as stated: every such read callback performs exactly one accept,
\* stores exactly one wrapper of the matching kind in the pendingHandle slot
\* before calling OnRead and delivers OnRead exactly once with the byte
\* count and buffer it received.
C8_AsStated == C8_Case => C8_RoundTripDone

\* C8, amended: such a read callback does so whenever the wrapper is
\* instantiated, the accept succeeds and the store into the slot succeeds;
\* when no wrapper object is obtained it performs no accept, leaves the slot
\* as it was and still delivers OnRead once; when the accept or the store
\* fails the process is terminated with the slot as it was and no OnRead
\* delivered.
C8_RoundTrip ==
  C8_Case =>
    /\ (cb.in.instOk /\ cb.in.acceptRes = 0 /\ cb.in.setOk) =>
         (C8_RoundTripDone /\ ~aborted)
    /\ (cb.in.instOk /\ cb.in.acceptRes = 0 /\ ~cb.in.setOk) =>
         /\ aborted
         /\ cb.out.accepts = 1
         /\ slot = cb.slotBefore
         /\ cb.out.emits = <<>>
    /\ ~cb.in.instOk =>
         /\ cb.out.accepts = 0
         /\ cb.out.slotWrites = 0
         /\ slot = cb.slotBefore
         /\ cb.out.emits = <<[nread |-> cb.in.nread, buf |-> cb.in.buf,
                              slot  |-> cb.slotBefore.kind]>>
         /\ ~aborted
    /\ (cb.in.instOk /\ cb.in.acceptRes # 0) =>
         /\ aborted
         /\ cb.out.accepts = 1
         /\ cb.out.slotWrites = 0
         /\ slot = cb.slotBefore
         /\ cb.out.emits = <<>>

\* A read carried a named-pipe handle: it was accepted, a PipeWrap is in the
\* slot and the payload was delivered.
C8_Witness ==
  /\ C8_Case
  /\ cb.in.ptype = "UV_NAMED_PIPE"
  /\ slot = [kind |-> "PipeWrap", cycle |-> cb.in.cycle]
  /\ Len(cb.out.emits) = 1
  /\ ~aborted

\* C9: every read callback that returns normally calls OnRead exactly once
\* with the nread and the buffer it was given, whatever the sign of nread,
\* and no read callback changes the read registration or the close state of
\* the handle.
C9_ReadForwarding ==
  /\ [](cb.called /\ ~cb.out.abort =>
          /\ Len(cb.out.emits) = 1
          /\ cb.out.emits[1].nread = cb.in.nread
          /\ cb.out.emits[1].buf = cb.in.buf)
  /\ [][(allocBuf # 0 /\ allocBuf' = 0) =>
          (reading' = reading /\ state' = state /\ stream_' = stream_)]_vars

\* A negative nread was forwarded and the adapter is still registered on an
\* open handle.
C9_Witness ==
  /\ cb.called
  /\ cb.in.nread < 0
  /\ Len(cb.out.emits) = 1
  /\ cb.out.emits[1].nread = cb.in.nread
  /\ reading
  /\ state = "kInitialized"
  /\ allocBuf = 0

\* C10: no libuv call is ever made with a null handle, and a ReadStart,
\* ReadStop, Write, TryWrite or Shutdown attempted while the handle is null
\* is rejected: nothing reaches the loop and no state of the adapter changes.
C10_NullHandle ==
  /\ [](~nullCall)
  /\ [][(stream_ = "null" /\ last' # last) =>
          /\ last'.op = "rejected"
          /\ last'.ret = UV_EINVAL
          /\ UNCHANGED <<reading, writes, writeq, shuts, shutq, completed,
                         arr, bufs, count>>]_vars

\* A Write was attempted on the null handle and rejected.
C10_Witness ==
  /\ stream_ = "null"
  /\ last.op = "rejected"
  /\ last.what = "Write"
  /\ last.null
  /\ ~nullCall

\* C11: GetWriteQueueSize() returns 0 when the handle is absent and
\* otherwise exactly the handle's queued-byte count, for every value the
\* size_t counter can hold, including values at or above 2^32.
C11_AsStated ==
  last.op = "GetWriteQueueSize" =>
    /\ last.null => last.ret = <<0, 0, 0, 0>>
    /\ ~last.null => last.ret = last.wqs

\* C12: at every OnRead delivery the pendingHandle slot exposes a
\* transferred handle only if that handle arrived in the same read cycle; in
\* a later cycle in which none arrived the slot does not still expose the
\* handle an earlier cycle stored.
C12_AsStated ==
  (cb.called /\ cb.out.emits # <<>> /\ cb.out.slot.kind # "none")
    => cb.out.slot.cycle = cb.in.cycle

\* C12 as amended: at an OnRead delivery the slot holds the handle of this
\* cycle when one arrived and was stored, and otherwise what it held before
\* the cycle, be that the handle of an earlier cycle.
C12_SlotScoping ==
  (cb.called /\ cb.out.emits # <<>>) =>
    /\ cb.out.slotWrites = 1 =>
         /\ cb.out.slot.kind # "none"
         /\ cb.out.slot.cycle = cb.in.cycle
    /\ cb.out.slotWrites = 0 => cb.out.slot = cb.slotBefore
    /\ slot = cb.out.slot

C12_Witness ==
  /\ cb.called /\ cb.out.emits # <<>>
  /\ cb.out.slotWrites = 0
  /\ cb.out.slot.kind # "none"
  /\ cb.out.slot.cycle < cb.in.cycle
  /\ cb.out.emits[1].slot = cb.out.slot.kind

\* C13: a Write that supplies a transferHandle on an adapter that is not
\* IPC-capable is rejected with InvalidOperation and submits nothing to the
\* event loop: no dual-handle write is dispatched and no completion
\* callback follows.
C13_AsStated ==
  \A i \in 1..Len(writes) :
    (writes[i].send /\ ~ipc) =>
      /\ writes[i].ret = UV_EINVAL
      /\ \A k \in 1..Len(writeq) : writeq[k] # i
      /\ writes[i].done = 0

\* C15: Write marks a request dispatched exactly when the dispatch call
\* returned a non-negative code, so the requests marked dispatched are the
\* requests whose completion callback is pending or has been delivered; a
\* request whose dispatch returned a negative status is not marked.
C15_AsStated ==
  \A i \in 1..Len(writes) :
    /\ writes[i].dispatched <=> writes[i].uv >= 0
    /\ writes[i].dispatched <=>
         \/ \E k \in 1..Len(writeq) : writeq[k] = i
         \/ writes[i].done >= 1

\* C14: when the accept of a reported pending handle fails, the process
\* terminates: the pendingHandle slot is not set, no OnRead is delivered for
\* that read, and no later callback of the adapter runs.
C14_AcceptFatal ==
  /\ []((cb.called /\ cb.out.accepts = 1 /\ cb.in.acceptRes # 0) =>
          /\ aborted /\ cb.out.abort
          /\ cb.out.slotWrites = 0
          /\ slot = cb.slotBefore
          /\ cb.out.emits = <<>>)
  /\ [][aborted => vars' = vars]_vars

C14_Witness ==
  /\ cb.called /\ cb.in.nread > 0
  /\ cb.out.made = 1 /\ cb.out.accepts = 1 /\ cb.in.acceptRes # 0
  /\ aborted

\* C16: the buffer OnAllocate returns is handed to the loop unmodified, and
\* every OnRead carries the buffer of the most recent OnAllocate, never one
\* of an earlier cycle.  A buffer is named by the cycle whose OnAllocate
\* returned it.
C16_AllocateThenRead ==
  /\ allocBuf # 0 => allocBuf = nCycle
  /\ cb.called =>
       /\ cb.in.buf = cb.in.cycle
       /\ \A k \in 1..Len(cb.out.emits) : cb.out.emits[k].buf = cb.in.cycle

C16_Witness ==
  /\ cb.called /\ cb.in.cycle = 2
  /\ Len(cb.out.emits) = 1
  /\ cb.out.emits[1].buf = 2

\* The read callbacks C17 is about: a positive byte count on an IPC pipe
\* that reports a pending handle.
C17_Case == cb.called /\ ipc /\ cb.in.nread > 0 /\ cb.in.pcount > 0

\* C17: in a read callback with a positive byte count, a pending handle of
\* kind TCP, named pipe or UDP is accepted with the wrapper of that kind,
\* and one of any other kind is rejected: no wrapper is constructed, no
\* accept is performed and the pendingHandle slot is not written.
C17_AsStated ==
  C17_Case =>
    IF cb.in.ptype \in {"UV_TCP", "UV_NAMED_PIPE", "UV_UDP"}
      THEN /\ cb.out.made = 1 /\ cb.out.accepts = 1
           /\ cb.out.slotWrites = 1
           /\ cb.out.slot.kind = WrapperFor[cb.in.ptype]
      ELSE /\ cb.out.made = 0 /\ cb.out.accepts = 0
           /\ cb.out.slotWrites = 0

\* C17 as amended: a pending TCP, named-pipe or UDP handle is accepted with
\* the wrapper of that kind when the wrapper instantiates, the accept
\* succeeds and the property is stored; when the wrapper does not
\* instantiate nothing is accepted and the read is still forwarded; a
\* failed accept or store terminates the process.  For any other kind no
\* wrapper is constructed, nothing is accepted and the slot is not written:
\* an unknown kind is ignored and the read forwarded, every other kind
\* terminates the process.
C17_ClosedKinds ==
  C17_Case =>
    IF cb.in.ptype \in {"UV_TCP", "UV_NAMED_PIPE", "UV_UDP"}
      THEN /\ cb.in.instOk => (cb.out.made = 1 /\ cb.out.accepts = 1)
           /\ (cb.in.instOk /\ cb.in.acceptRes = 0) => cb.out.slotWrites = 1
           /\ (cb.in.instOk /\ cb.in.acceptRes = 0 /\ cb.in.setOk) =>
                /\ ~cb.out.abort
                /\ cb.out.slot = [kind  |-> WrapperFor[cb.in.ptype],
                                  cycle |-> cb.in.cycle]
                /\ Len(cb.out.emits) = 1
                /\ cb.out.emits[1].slot = WrapperFor[cb.in.ptype]
           /\ ~cb.in.instOk =>
                /\ cb.out.made = 0 /\ cb.out.accepts = 0
                /\ cb.out.slotWrites = 0
                /\ ~cb.out.abort /\ Len(cb.out.emits) = 1
           /\ (cb.in.instOk /\ (cb.in.acceptRes # 0 \/ ~cb.in.setOk)) =>
                (cb.out.abort /\ cb.out.emits = <<>>)
      ELSE /\ cb.out.made = 0 /\ cb.out.accepts = 0
           /\ cb.out.slotWrites = 0
           /\ cb.out.slot = cb.slotBefore
           /\ IF cb.in.ptype = "UV_UNKNOWN_HANDLE"
                THEN ~cb.out.abort /\ Len(cb.out.emits) = 1
                ELSE cb.out.abort /\ cb.out.emits = <<>>

C17_Witness ==
  /\ C17_Case /\ cb.in.ptype = "UV_TTY"
  /\ cb.out.made = 0 /\ cb.out.accepts = 0 /\ cb.out.slotWrites = 0
  /\ aborted

\* C18: the read callback accepts and writes the pendingHandle slot only
\* when the adapter is IPC-capable, the loop reports a pending count above
\* zero and nread is positive; on a non-IPC adapter, or with nread <= 0 even
\* if a pending handle is reported, nothing is accepted and the slot is
\* unchanged.
C18_AcceptGating ==
  cb.called =>
    \/ ipc /\ cb.in.pcount > 0 /\ cb.in.nread > 0
    \/ /\ cb.out.made = 0 /\ cb.out.accepts = 0
       /\ cb.out.slotWrites = 0
       /\ cb.out.slot = cb.slotBefore
       /\ slot = cb.slotBefore

C18_Witness ==
  /\ cb.called /\ ~ipc
  /\ cb.in.pcount = 1 /\ cb.in.ptype = "UV_TCP" /\ cb.in.nread > 0
  /\ cb.out.accepts = 0 /\ cb.out.slot = cb.slotBefore
  /\ Len(cb.out.emits) = 1

\* C19: the read callback never runs after the handle has been closed: the
\* loop has a read cycle under way only on an open handle, and every read
\* callback found the handle open, so the assertion that the adapter's
\* object is still there never fails.
C19_NoReadAfterClose ==
  /\ allocBuf # 0 => (state = "kInitialized" /\ stream_ = "handle")
  /\ cb.called => cb.out.state = "kInitialized"
  /\ state # "kInitialized" => ~reading

C19_Witness ==
  /\ cb.called /\ cb.out.reading /\ Len(cb.out.emits) = 1
  /\ state = "kClosed" /\ stream_ = "null"
  /\ ~aborted
====
